---- MODULE Spec2Model ----
(***************************************************************************)
(* The Foo controller of pkg/controller: start-up (CRD registration),      *)
(* the two watch producers of pkg/kubeapi, the debouncer of pkg/ratelimit  *)
(* and the reconciliation loop processResources with its synchronization   *)
(* pass.  One action per handler of the select loop; the goroutines        *)
(* (loop, two producers, debouncer, host) interleave.                      *)
(***************************************************************************)
EXTENDS Integers, Sequences, FiniteSets, TLC

VARIABLES
    pc,            \* position of the startAux/processResources goroutine
    pendingErr,    \* the error the goroutine is blocked sending on c.Errors
    foos,          \* status.foos: name -> Foo
    deployments,   \* status.deployments: name -> Deployment
    todo,          \* status.todo: set of Foo names
    ch,            \* the loop's foosCh / deploymentsCh: "unset", "open", "nil"
    stopCh,        \* c.stopFoos / c.stopDeployments: "nil", "open", "closed"
    prod,          \* position of each produceResources goroutine
    sent,          \* envelopes the two watch connections have delivered so far
    crdSent,       \* events addCRD has read from the registration watch
    rlTimer,       \* the debouncer's timer: "stopped", "armed", "fired"
    rlTick,        \* the debouncer's local tick channel is enabled (tick != nil)
    hostpc,        \* the host's RequestStop call: "idle", "stopping", "stopped"
    errs,          \* the values the host has received from c.Errors
    errorsClosed,  \* c.Errors is closed
    last,          \* what the last step of the loop goroutine did
    burst,         \* Foo Upserts processed since the debouncer was idle
    rl,            \* the debouncer's goroutine, its caller and their counts
    net            \* the two watch connections: what the server has written

vars == <<pc, pendingErr, foos, deployments, todo, ch, stopCh, prod, sent,
          crdSent, rlTimer, rlTick, hostpc, errs, errorsClosed, last, burst,
          rl, net>>

----------------------------------------------------------------------------
(* Bounds of the model *)

MaxEvents == 3
MaxCRDEvents == 2
MaxAsks == 3

----------------------------------------------------------------------------
(* Data *)

Kind == "Foo"

Streams == {"foos", "deployments"}

Names == {"abc", "def"}
DeploymentNames == {"bar", "baz"}
ReplicaValues == {1, 2}
ResourceVersions == {1, 2}

\* The uid the server gave each Foo, and a uid of no Foo
UIDOf(name) == IF name = "abc" THEN "uid-abc" ELSE "uid-def"
WrongUID == "wrong"

FooSet ==
    {f \in [Name : Names, UID : {UIDOf(n) : n \in Names},
            Spec : [DeploymentName : DeploymentNames, Replicas : ReplicaValues]] :
        /\ f.UID = UIDOf(f.Name)
        /\ f.Spec.DeploymentName = "baz" => f.Spec.Replicas = 1
        /\ f.Name = "def" => f.Spec.DeploymentName = "baz"}

OwnerRef(kind, name, uid, controller) ==
    [Kind |-> kind, Name |-> name, UID |-> uid, Controller |-> controller]

\* metav1.NewControllerRef as newDeployment calls it
NewControllerRef(foo) == OwnerRef(Kind, foo.Name, foo.UID, TRUE)

OwnerReferenceLists ==
    { <<>>,
      <<OwnerRef(Kind, "abc", UIDOf("abc"), TRUE)>>,
      <<OwnerRef(Kind, "abc", WrongUID, TRUE)>>,
      <<OwnerRef(Kind, "def", UIDOf("def"), TRUE)>>,
      <<OwnerRef(Kind, "def", UIDOf("def"), FALSE),
        OwnerRef(Kind, "abc", UIDOf("abc"), TRUE)>>,
      <<OwnerRef("Job", "xyz", UIDOf("abc"), TRUE)>> }

\* The deployments the server reports.  Resource version and replica count
\* vary on the deployments whose controller is the Foo abc; the pass reads
\* neither on the others.
DeploymentSet ==
    {d \in [Name : {"bar"}, ResourceVersion : ResourceVersions,
            OwnerReferences : OwnerReferenceLists,
            Spec : [Replicas : ReplicaValues]] :
        /\ d.OwnerReferences # <<OwnerRef(Kind, "abc", UIDOf("abc"), TRUE)>>
              => d.ResourceVersion = 1 /\ d.Spec.Replicas = 1
        /\ d.Spec.Replicas = 2 => d.ResourceVersion = 1}

EmptyMap == [x \in {} |-> 0]
MapPut(m, k, v) == [x \in DOMAIN m \cup {k} |-> IF x = k THEN v ELSE m[x]]
\* A delete that removes nothing
MapDelete_Keep(m, k) == m
MapDelete(m, k) == [x \in DOMAIN m \ {k} |-> m[x]]

----------------------------------------------------------------------------
(* pkg/kubeapi: the HTTP answer mapping and the watch protocol *)

\* What the server answers to a request: a status code, or no answer at all.
Answers == {[transport |-> FALSE, status |-> s] : s \in {201, 401, 404, 409}}
           \cup {[transport |-> TRUE, status |-> 0]}

\* The answers to the calls of a pass: 201 and 401, as in TestFoo
CallAnswers == {a \in Answers : ~a.transport /\ a.status \in {201, 401}}

NoError == [kind |-> "nil", StatusCode |-> 0]

\* KubeClient.do followed by putOrPost: the error value of a request
do(ans) ==
    IF ans.transport THEN [kind |-> "transport", StatusCode |-> 0]
    ELSE IF ~(ans.status >= 200 /\ ans.status < 300)
         THEN [kind |-> "RequestError", StatusCode |-> ans.status]
         ELSE NoError

\* parseEventType: <<isDelete, err>>
parseEventType(ty) ==
    IF ty \in {"ADDED", "MODIFIED"} THEN [isDelete |-> FALSE, err |-> ""]
    ELSE IF ty = "DELETED" THEN [isDelete |-> TRUE, err |-> ""]
    ELSE [isDelete |-> FALSE, err |-> "Invalid EventType"]

\* An envelope of the watch body: wellFormed is whether Decode accepts it,
\* payloadOK whether json.Unmarshal of object.Raw into the watched type does.
Envelopes(items) ==
    {[wellFormed |-> TRUE, type |-> t, payloadOK |-> TRUE, object |-> o] :
        t \in {"ADDED", "MODIFIED", "DELETED"}, o \in items}
    \cup {[wellFormed |-> w, type |-> t, payloadOK |-> p,
           object |-> CHOOSE o \in items : TRUE] :
            w \in BOOLEAN, t \in {"ADDED", "XYZ"}, p \in BOOLEAN}

WatchEvent(isDelete, item, err) == [IsDelete |-> isDelete, Item |-> item, Err |-> err]

\* The decode loop taking every event type it does not know for ADDED
produceEvent_AcceptType(env) ==
    IF ~env.wellFormed
    THEN WatchEvent(FALSE, env.object, "Could not decode WatchEvent")
    ELSE IF ~env.payloadOK
         THEN WatchEvent(FALSE, env.object, "Unmarshaling of resource failed")
         ELSE WatchEvent(env.type = "DELETED", env.object, "")

\* One iteration of the decode loop of produceResources: the event it sends.
produceEvent(env) ==
    IF ~env.wellFormed
    THEN WatchEvent(FALSE, env.object, "Could not decode WatchEvent")
    ELSE LET p == parseEventType(env.type) IN
         IF p.err # "" THEN WatchEvent(FALSE, env.object, p.err)
         ELSE IF ~env.payloadOK
              THEN WatchEvent(FALSE, env.object, "Unmarshaling of resource failed")
              ELSE WatchEvent(p.isDelete, env.object, "")

\* The event for a failed GET, without its error
watchFailed_NoErr(items) == WatchEvent(FALSE, CHOOSE o \in items : TRUE, "")

\* The event sent when the GET that opens the watch fails
watchFailed(items) == WatchEvent(FALSE, CHOOSE o \in items : TRUE, "Watch failed")

\* What the server wrote: a regular envelope ("ok"), bytes that are no
\* envelope, an envelope of an unknown type, or one with a payload that is
\* not of the watched type
EnvelopeClass(env) ==
    IF ~env.wellFormed THEN "malformed"
    ELSE IF env.type \notin {"ADDED", "MODIFIED", "DELETED"} THEN "type"
    ELSE IF ~env.payloadOK THEN "payload"
    ELSE "ok"

\* An envelope with the event the producer makes of it
Delivery(env) == [env |-> EnvelopeClass(env), ev |-> produceEvent(env)]

\* The send the producer is in with an event: the event is an error or not
sendOf(ev) == IF ev.Err # "" THEN "sendErr" ELSE "send"

\* The events a producer can send for the envelopes the server can write
FooEvents == {Delivery(e) : e \in Envelopes(FooSet)}
DeploymentEvents == {Delivery(e) : e \in Envelopes(DeploymentSet)}

\* The sends a producer can enter after a Decode
FooSends == {sendOf(d.ev) : d \in FooEvents}
DeploymentSends == {sendOf(d.ev) : d \in DeploymentEvents}
SendsOf(s) == IF s = "foos" THEN FooSends ELSE DeploymentSends

----------------------------------------------------------------------------
(* pkg/controller: ownership, the desired deployment, the pass *)

\* metav1.GetControllerOfNoCopy: index of the first controlling reference, or 0
GetControllerOf(dep) ==
    LET is == {i \in 1..Len(dep.OwnerReferences) : dep.OwnerReferences[i].Controller}
    IN IF is = {} THEN 0 ELSE CHOOSE i \in is : \A j \in is : i <= j

\* Any controlling reference counts, whatever its uid
IsControlledBy_AnyController(dep, foo) == GetControllerOf(dep) # 0

\* The controlling reference has to match on kind, name and uid
IsControlledBy_Exact(dep, foo) ==
    LET i == GetControllerOf(dep) IN
    i # 0 /\ dep.OwnerReferences[i] = NewControllerRef(foo)

\* metav1.IsControlledBy(&dep, &foo)
IsControlledBy(dep, foo) ==
    LET i == GetControllerOf(dep) IN
    i # 0 /\ dep.OwnerReferences[i].UID = foo.UID

\* The owner reference does not mark the Foo as the controller
newDeployment_NotController(foo) ==
    [Name |-> foo.Spec.DeploymentName,
     ResourceVersion |-> 0,
     OwnerReferences |-> <<OwnerRef(Kind, foo.Name, foo.UID, FALSE)>>,
     Spec |-> [Replicas |-> foo.Spec.Replicas]]

\* The deployment is named after the Foo, not after its Spec.DeploymentName
newDeployment_NamedAfterFoo(foo) ==
    [Name |-> foo.Name,
     ResourceVersion |-> 0,
     OwnerReferences |-> <<NewControllerRef(foo)>>,
     Spec |-> [Replicas |-> foo.Spec.Replicas]]

newDeployment(foo) ==
    [Name |-> foo.Spec.DeploymentName,
     ResourceVersion |-> 0,
     OwnerReferences |-> <<NewControllerRef(foo)>>,
     Spec |-> [Replicas |-> foo.Spec.Replicas]]

Call(verb, dep, item) == [verb |-> verb, dep |-> dep, item |-> item]

\* The update is sent without the observed resource version
setResourceVersion_Unset(newDep, dep) == newDep

\* newDep.ResourceVersion = dep.ResourceVersion, before UpdateDeployment
setResourceVersion(newDep, dep) ==
    [newDep EXCEPT !.ResourceVersion = dep.ResourceVersion]

\* A pass that drops the name of a Foo whose target it does not control
processOneItem_DropConflict(item, answer) ==
    LET none == [delete |-> FALSE, calls |-> {}, warned |-> FALSE, err |-> NoError] IN
    IF item \notin DOMAIN foos
    THEN [none EXCEPT !.delete = TRUE]
    ELSE LET foo == foos[item]
             has_dep == foo.Spec.DeploymentName \in DOMAIN deployments
             dep == deployments[foo.Spec.DeploymentName]
             newDep == newDeployment(foo)
             call == IF has_dep
                     THEN Call("PUT", setResourceVersion(newDep, dep), item)
                     ELSE Call("POST", newDep, item)
             err == do(answer)
         IN IF has_dep /\ ~IsControlledBy(dep, foo)
            THEN [none EXCEPT !.warned = TRUE, !.delete = TRUE]
            ELSE IF has_dep /\ foo.Spec.Replicas = dep.Spec.Replicas
            THEN [none EXCEPT !.delete = TRUE]
            ELSE [delete |-> err.kind = "nil", calls |-> {call},
                  warned |-> FALSE, err |-> err]

\* A pass that updates a controlled target whatever its replica count
processOneItem_AlwaysUpdate(item, answer) ==
    LET none == [delete |-> FALSE, calls |-> {}, warned |-> FALSE, err |-> NoError] IN
    IF item \notin DOMAIN foos
    THEN [none EXCEPT !.delete = TRUE]
    ELSE LET foo == foos[item]
             has_dep == foo.Spec.DeploymentName \in DOMAIN deployments
             dep == deployments[foo.Spec.DeploymentName]
             newDep == newDeployment(foo)
             call == IF has_dep
                     THEN Call("PUT", setResourceVersion(newDep, dep), item)
                     ELSE Call("POST", newDep, item)
             err == do(answer)
         IN IF has_dep /\ ~IsControlledBy(dep, foo)
            THEN [none EXCEPT !.warned = TRUE]
            ELSE [delete |-> err.kind = "nil", calls |-> {call},
                  warned |-> FALSE, err |-> err]

\* The body of the loop of synchronize for one item of todo.  answer is the
\* server's answer to the call, if one is issued.  The result: whether the item
\* is deleted from todo, the call issued (a set with at most one element),
\* whether the warning is logged, and the error returned.
processOneItem(item, answer) ==
    LET none == [delete |-> FALSE, calls |-> {}, warned |-> FALSE, err |-> NoError] IN
    IF item \notin DOMAIN foos
    THEN [none EXCEPT !.delete = TRUE]
    ELSE LET foo == foos[item]
             has_dep == foo.Spec.DeploymentName \in DOMAIN deployments
             dep == deployments[foo.Spec.DeploymentName]
             newDep == newDeployment(foo)
             call == IF has_dep
                     THEN Call("PUT", setResourceVersion(newDep, dep), item)
                     ELSE Call("POST", newDep, item)
             err == do(answer)
         IN IF has_dep /\ ~IsControlledBy(dep, foo)
            THEN [none EXCEPT !.warned = TRUE]
            ELSE IF has_dep /\ foo.Spec.Replicas = dep.Spec.Replicas
            THEN [none EXCEPT !.delete = TRUE]
            ELSE [delete |-> err.kind = "nil", calls |-> {call},
                  warned |-> FALSE, err |-> err]

\* synchronize over the items of todo in the order the map iteration yields
\* them; acc accumulates the effect of the items already examined.
RECURSIVE synchronizeFrom(_, _, _)
synchronizeFrom(order, answers, acc) ==
    IF order = <<>> THEN acc
    ELSE LET item == Head(order)
             r == processOneItem(item, answers[item])
             next == [todo |-> IF r.delete THEN acc.todo \ {item} ELSE acc.todo,
                      issued |-> acc.issued \cup r.calls,
                      warned |-> IF r.warned THEN acc.warned \cup {item}
                                 ELSE acc.warned,
                      examined |-> acc.examined \cup {item},
                      err |-> r.err.kind # "nil"]
         IN IF next.err THEN next
            ELSE synchronizeFrom(Tail(order), answers, next)

\* A failed pass that restores todo
synchronize_Rollback(order, answers) ==
    LET r == synchronizeFrom(order, answers,
                 [todo |-> todo, issued |-> {}, warned |-> {}, examined |-> {},
                  err |-> FALSE])
    IN IF r.err THEN [r EXCEPT !.todo = todo] ELSE r

synchronize(order, answers) ==
    synchronizeFrom(order, answers,
        [todo |-> todo, issued |-> {}, warned |-> {}, examined |-> {}, err |-> FALSE])

\* The range stops after the first key
Orders_FirstOnly(S) == {<<x>> : x \in S}

\* The orders in which a range over the map todo can yield its keys
Orders(S) ==
    {o \in [1..Cardinality(S) -> S] : \A i, j \in 1..Cardinality(S) :
                                         i # j => o[i] # o[j]}

----------------------------------------------------------------------------
(* Ghost bookkeeping of the loop's last step *)

\* kind and name: the handler that ran and the object (or stream) it was
\* about; env: what the server had sent for the event the handler received;
\* ok: the deployment of a deployment event was observed before it;
\* code: the status answered to the registration POST (-1: no answer), kept
\* by the steps of the registration watch;
\* issued, warned, examined, err, burst: the calls a pass issued, the names it
\* logged the warning for, the names it examined, whether it failed, and the
\* burst of Foo Upserts it followed;
\* retried: the pass came right after a failed pass and issued its failed call
\* again;
\* from: the Spec.DeploymentName the entry of foos had before a Foo Upsert
\* that changed it ("" otherwise); a pass keeps the one of the step before it.
Step(kind, name) ==
    [kind |-> kind, name |-> name, env |-> "", ok |-> FALSE, code |-> 0,
     issued |-> {},
     warned |-> {}, examined |-> {}, err |-> FALSE, burst |-> {},
     retried |-> FALSE, from |-> ""]

\* After a failed pass: the call that failed (the name of every call that
\* succeeded has left todo)
FailedCalls ==
    IF last.kind = "pass" /\ last.err
    THEN {c \in last.issued : c.item \in todo} ELSE {}

NoPendingErr == [prefix |-> "", cause |-> "", code |-> 0]

\* The watch connections before anything was written.  For each stream, body:
\* the envelopes the server has written that Decode has not read yet; held:
\* the event the producer is sending (at most one); log: every envelope the
\* server has written, in order.
NetStart ==
    [body |-> [s \in Streams |-> <<>>], held |-> [s \in Streams |-> <<>>],
     log |-> [s \in Streams |-> <<>>]]

\* The debouncer as AfterOneSecondIdle returns it.  g: its goroutine is
\* "running" or has "returned"; caller: the goroutine that calls AskTick and
\* Stop is outside a call ("idle") or blocked in the send of one ("askTick",
\* "stop"); asks: the AskTicks served; expiries: the expiries of the timer;
\* takes: the values the goroutine received from timer.C; ticks: the ticks
\* the consumer received.
RLStart ==
    [g |-> "running", caller |-> "idle", asks |-> 0, expiries |-> 0,
     takes |-> 0, ticks |-> 0]

RLIdle == rlTimer = "stopped" /\ ~rlTick

----------------------------------------------------------------------------
Init ==
    /\ pc = "addCRD"
    /\ pendingErr = NoPendingErr
    /\ foos = EmptyMap
    /\ deployments = EmptyMap
    /\ todo = {}
    /\ ch = [s \in Streams |-> "unset"]
    /\ stopCh = [s \in Streams |-> "nil"]
    /\ prod = [s \in Streams |-> "none"]
    /\ sent = 0
    /\ crdSent = 0
    /\ rlTimer = "stopped"
    /\ rlTick = FALSE
    /\ hostpc = "idle"
    /\ errs = <<>>
    /\ errorsClosed = FALSE
    /\ last = Step("init", "")
    /\ burst = {}
    /\ rl = RLStart
    /\ net = NetStart

----------------------------------------------------------------------------
(* Start-up: startAux, addFooCRD, addCRD *)

\* addCRD without the exception for 409
addCRDPostError_No409(err) ==
    IF err.kind = "RequestError" THEN err ELSE NoError

\* addCRD returning every error of the POST but a 409
addCRDPostError_AnyError(err) ==
    IF err.kind = "nil" \/ (err.kind = "RequestError" /\ err.StatusCode = 409)
    THEN NoError ELSE err

\* addCRD, after AddCustomResourceDefinition returned err: the error addCRD
\* returns at once, or NoError when it goes on to the registration watch.
addCRDPostError(err) ==
    IF err.kind = "RequestError" /\ err.StatusCode # 409 THEN err ELSE NoError

CRDSet == [Established : BOOLEAN]
CRDEvents == {Delivery(e) : e \in Envelopes(CRDSet)}

\* addCRD's POST of the definition
AddCRDPost ==
    /\ pc = "addCRD"
    /\ \E ans \in Answers :
         LET re == addCRDPostError(do(ans)) IN
         /\ IF re.kind # "nil"
            THEN /\ pc' = "sendErr"
                 /\ pendingErr' = [prefix |-> "Could not add CRD",
                                   cause |-> "http request failed",
                                   code |-> re.StatusCode]
            ELSE /\ pc' = "crdWatch"
                 /\ pendingErr' = pendingErr
         /\ last' = [Step("crdPost", "") EXCEPT
                        !.code = IF ans.transport THEN -1 ELSE ans.status]
    /\ UNCHANGED <<rl, net, foos, deployments, todo, ch, stopCh, prod, sent, crdSent,
                   rlTimer, rlTick, hostpc, errs, errorsClosed, burst>>

\* One iteration of addCRD's loop over the registration watch
AddCRDWatch ==
    /\ pc = "crdWatch"
    /\ crdSent < MaxCRDEvents
    /\ \E d \in CRDEvents \cup (IF crdSent = 0
                               THEN {[env |-> "openFailed", ev |-> watchFailed(CRDSet)]}
                               ELSE {}) :
         LET ev == d.ev IN
         /\ IF ev.Err # ""
            THEN /\ pc' = "sendErr"
                 /\ pendingErr' = [prefix |-> "Could not add CRD",
                                   cause |-> ev.Err, code |-> 0]
                 /\ crdSent' = 0
            ELSE /\ pc' = IF ~ev.IsDelete /\ ev.Item.Established
                          THEN "openFoos" ELSE "crdWatch"
                 /\ crdSent' = IF pc' = "crdWatch" THEN crdSent + 1 ELSE 0
                 /\ pendingErr' = pendingErr
         /\ last' = [Step("crdWatch", ev.Err) EXCEPT !.env = d.env,
                                                     !.code = last.code]
    /\ UNCHANGED <<rl, net, foos, deployments, todo, ch, stopCh, prod, sent,
                   rlTimer, rlTick, hostpc, errs, errorsClosed, burst>>

\* client.Get at the head of produceResources: the producer goes on to decode
\* the body, or to send the "Watch failed" event (a plain send: stopCh is not
\* watched there).
producerAfterGet(ans) == IF do(ans).kind = "nil" THEN "decode" ELSE "openErr"

\* startAux: GetResources for the Foos, and the assignment of c.stopFoos.
\* The producer it starts is taken up to the answer to its GET.
OpenFoos ==
    /\ pc = "openFoos"
    /\ pc' = "openDeployments"
    /\ ch' = [ch EXCEPT !["foos"] = "open"]
    /\ stopCh' = [stopCh EXCEPT !["foos"] = "open"]
    /\ \E ans \in Answers : prod' = [prod EXCEPT !["foos"] = producerAfterGet(ans)]
    /\ last' = Step("open", "foos")
    /\ UNCHANGED <<rl, net, pendingErr, foos, deployments, todo, sent, crdSent,
                   rlTimer, rlTick, hostpc, errs, errorsClosed, burst>>

\* startAux: GetDeployments, and the assignment of c.stopDeployments
OpenDeployments ==
    /\ pc = "openDeployments"
    /\ pc' = "select"
    /\ ch' = [ch EXCEPT !["deployments"] = "open"]
    /\ stopCh' = [stopCh EXCEPT !["deployments"] = "open"]
    /\ \E ans \in Answers :
         prod' = [prod EXCEPT !["deployments"] = producerAfterGet(ans)]
    /\ last' = Step("open", "deployments")
    /\ UNCHANGED <<rl, net, pendingErr, foos, deployments, todo, sent, crdSent,
                   rlTimer, rlTick, hostpc, errs, errorsClosed, burst>>

----------------------------------------------------------------------------
(* The watch producers: produceResources *)

\* decoder.Decode returns with what the server sent (or fails on it) and the
\* producer enters send with stopCh open, with a data event ("send") or with
\* an error event ("sendErr").  The rest of the content is read by nobody
\* before the loop receives the event: it is drawn at the receive.
ProdDecode(s) ==
    /\ prod[s] = "decode"
    /\ stopCh[s] # "closed"
    /\ sent < MaxEvents
    /\ \E send \in SendsOf(s) : prod' = [prod EXCEPT ![s] = send]
    /\ sent' = sent + 1
    /\ UNCHANGED <<rl, net, pc, pendingErr, foos, deployments, todo, ch, stopCh,
                   crdSent, rlTimer, rlTick, hostpc, errs, errorsClosed, last,
                   burst>>

\* Cancellation that does not reach a producer holding an Error event
ProdCancelled_OnlySend(s) ==
    /\ stopCh[s] = "closed"
    /\ prod[s] \in {"decode", "send"}
    /\ prod' = [prod EXCEPT ![s] = "closed"]
    /\ UNCHANGED <<rl, net, pc, pendingErr, foos, deployments, todo, ch, stopCh, sent,
                   crdSent, rlTimer, rlTick, hostpc, errs, errorsClosed, last,
                   burst>>

\* stopCh is closed: the body is closed, a blocked Decode fails, send returns
\* without sending, and the producer returns and closes its stream.
ProdCancelled(s) ==
    /\ stopCh[s] = "closed"
    /\ prod[s] \in {"decode", "send", "sendErr"}
    /\ prod' = [prod EXCEPT ![s] = "closed"]
    /\ UNCHANGED <<rl, net, pc, pendingErr, foos, deployments, todo, ch, stopCh, sent,
                   crdSent, rlTimer, rlTick, hostpc, errs, errorsClosed, last,
                   burst>>

\* The events the loop can receive from stream s now
Receivable(s, items, events) ==
    IF prod[s] = "openErr" THEN {[env |-> "openFailed", ev |-> watchFailed(items)]}
    ELSE {d \in events : sendOf(d.ev) = prod[s]}

----------------------------------------------------------------------------
(* The debouncer: AfterOneSecondIdle *)

\* An AskTick that leaves an expired timer as it is
AskTick_KeepFired(timer) == IF timer = "fired" THEN "fired" ELSE "armed"

\* The timer after the debouncer served an AskTick: Stop, drain, Reset
AskTick(timer) == "armed"

\* The timer of the debouncer expires: a value is available on timer.C
TimerExpire ==
    /\ rlTimer = "armed"
    /\ rlTimer' = "fired"
    /\ UNCHANGED <<rl, net, pc, pendingErr, foos, deployments, todo, ch, stopCh, prod,
                   sent, crdSent, rlTick, hostpc, errs, errorsClosed, last,
                   burst>>

\* case <-timer.C: the debouncer enables the send on its tick channel
RLTimerC ==
    /\ rlTimer = "fired"
    /\ rlTimer' = "stopped"
    /\ rlTick' = TRUE
    /\ UNCHANGED <<rl, net, pc, pendingErr, foos, deployments, todo, ch, stopCh, prod,
                   sent, crdSent, hostpc, errs, errorsClosed, last, burst>>

----------------------------------------------------------------------------
(* The reconciliation loop: processResources *)

\* status is local to processResources and no statement on the way out of
\* the loop reads it: it is discarded where the loop leaves the select.
Discard ==
    /\ foos' = EmptyMap
    /\ deployments' = EmptyMap
    /\ todo' = {}
    /\ burst' = {}

\* One prefix for both streams
errorPrefix_Same(s) == "Reading Foos"

\* The prefix of the error the loop reports for a failed stream
errorPrefix(s) == IF s = "foos" THEN "Reading Foos" ELSE "Reading deployments"

\* The loop returns on an Error event without sending it on c.Errors
RecvError_Silent(s, ev, env) ==
    /\ pc' = "closing"
    /\ prod' = [prod EXCEPT ![s] = "closed"]
    /\ last' = [Step("error", s) EXCEPT !.env = env]
    /\ Discard
    /\ UNCHANGED <<rl, pendingErr, ch, stopCh, sent, crdSent, rlTimer, rlTick,
                   hostpc, errs, errorsClosed>>

\* The Error event of stream s: the loop goes to send it on c.Errors; the
\* producer has returned after its send and closed the stream.
RecvError(s, ev, env) ==
    /\ pc' = "sendErr"
    /\ pendingErr' = [prefix |-> errorPrefix(s), cause |-> ev.Err, code |-> 0]
    /\ prod' = [prod EXCEPT ![s] = "closed"]
    /\ last' = [Step("error", s) EXCEPT !.env = env]
    /\ Discard
    /\ UNCHANGED <<rl, ch, stopCh, sent, crdSent, rlTimer, rlTick, hostpc, errs,
                   errorsClosed>>

\* The burst of Foo Upserts after the Upsert of name: it starts when the
\* debouncer is idle and goes on while the timer has not expired.
burstAfter(name) ==
    IF RLIdle THEN {name}
    ELSE IF rlTimer = "armed" /\ ~rlTick /\ burst # {} THEN burst \cup {name}
    ELSE {}

\* The body of case f, ok := <-foosCh for the event d received.  (With
\* RecvError, it leaves net to the action that received the event.)
HandleFoo(d) ==
    LET ev == d.ev IN
    IF ev.Err # "" THEN RecvError("foos", ev, d.env)
    ELSE LET newFoo == ev.Item IN
         /\ rlTimer' = AskTick(rlTimer)
         /\ foos' = IF ev.IsDelete THEN MapDelete(foos, newFoo.Name)
                    ELSE MapPut(foos, newFoo.Name, newFoo)
         /\ todo' = todo \cup {newFoo.Name}
         /\ prod' = [prod EXCEPT !["foos"] = "decode"]
         /\ last' = [Step(IF ev.IsDelete THEN "fooDelete" ELSE "fooUpsert",
                          newFoo.Name) EXCEPT !.env = d.env,
                        !.from = IF /\ ~ev.IsDelete
                                    /\ newFoo.Name \in DOMAIN foos
                                    /\ foos[newFoo.Name].Spec.DeploymentName #
                                          newFoo.Spec.DeploymentName
                                 THEN foos[newFoo.Name].Spec.DeploymentName
                                 ELSE ""]
         /\ burst' = IF ev.IsDelete THEN {} ELSE burstAfter(newFoo.Name)
         /\ UNCHANGED <<rl, pc, pendingErr, deployments, ch, stopCh, sent,
                        crdSent, rlTick, hostpc, errs, errorsClosed>>

\* case f, ok := <-foosCh, an event received
RecvFoo ==
    /\ pc = "select"
    /\ ch["foos"] = "open"
    /\ \E d \in Receivable("foos", FooSet, FooEvents) : HandleFoo(d)
    /\ UNCHANGED net

\* addTODO: the names it adds to todo (it asks for a tick for each)
addTODO(deployment) ==
    LET is == {i \in 1..Len(deployment.OwnerReferences) :
                  deployment.OwnerReferences[i].Kind = Kind}
    IN IF is = {} THEN {}
       ELSE {deployment.OwnerReferences[CHOOSE i \in is : \A j \in is : i <= j].Name}

\* The body of case d, ok := <-deploymentsCh for the event d received
HandleDeployment(d) ==
    LET ev == d.ev IN
    IF ev.Err # "" THEN RecvError("deployments", ev, d.env)
    ELSE LET newDep == ev.Item
             ok == newDep.Name \in DOMAIN deployments
             added == addTODO(newDep) \cup
                      (IF ok THEN addTODO(deployments[newDep.Name]) ELSE {})
         IN
         /\ deployments' = IF ev.IsDelete
                           THEN MapDelete(deployments, newDep.Name)
                           ELSE MapPut(deployments, newDep.Name, newDep)
         /\ todo' = todo \cup added
         /\ rlTimer' = IF added # {} THEN AskTick(rlTimer) ELSE rlTimer
         /\ prod' = [prod EXCEPT !["deployments"] = "decode"]
         /\ last' = [Step(IF ev.IsDelete THEN "depDelete" ELSE "depUpsert",
                          newDep.Name) EXCEPT !.ok = ok, !.env = d.env]
         /\ burst' = IF added # {} THEN {} ELSE burst
         /\ UNCHANGED <<rl, pc, pendingErr, foos, ch, stopCh, sent, crdSent,
                        rlTick, hostpc, errs, errorsClosed>>

\* case d, ok := <-deploymentsCh, an event received
RecvDeployment ==
    /\ pc = "select"
    /\ ch["deployments"] = "open"
    /\ \E d \in Receivable("deployments", DeploymentSet, DeploymentEvents) :
         HandleDeployment(d)
    /\ UNCHANGED net

\* The loop returns as soon as one stream is closed
RecvClosed_First(s) ==
    /\ pc = "select"
    /\ ch[s] = "open"
    /\ prod[s] = "closed"
    /\ ch' = [ch EXCEPT ![s] = "nil"]
    /\ last' = Step("closed", s)
    /\ pc' = "closing"
    /\ Discard
    /\ UNCHANGED <<rl, net, pendingErr, stopCh, prod, sent, crdSent, rlTimer, rlTick,
                   hostpc, errs, errorsClosed>>

\* Either receive case with ok = false: the stream is closed.  The channel
\* becomes nil and the loop returns once both are.
RecvClosed(s) ==
    /\ pc = "select"
    /\ ch[s] = "open"
    /\ prod[s] = "closed"
    /\ ch' = [ch EXCEPT ![s] = "nil"]
    /\ last' = Step("closed", s)
    /\ IF \A t \in Streams \ {s} : ch[t] = "nil"
       THEN pc' = "closing" /\ Discard
       ELSE pc' = "select" /\ UNCHANGED <<rl, net, foos, deployments, todo, burst>>
    /\ UNCHANGED <<rl, net, pendingErr, stopCh, prod, sent, crdSent, rlTimer, rlTick,
                   hostpc, errs, errorsClosed>>

\* A failed pass that asks for no tick
retryAfter_NoAsk(err, timer) == timer

\* Every pass asks for a tick
retryAfter_Always(err, timer) == AskTick(timer)

\* The timer after a pass: c.rl.AskTick() if synchronize returned an error
retryAfter(err, timer) == IF err THEN AskTick(timer) ELSE timer

\* case <-c.rl.GetChan(): one synchronization pass, and the AskTick after a
\* failed one
Tick ==
    /\ pc = "select"
    /\ rlTick
    /\ \E r \in {synchronize(order, answers) :
                      order \in Orders(todo), answers \in [todo -> CallAnswers]} :
         /\ todo' = r.todo
         /\ rlTimer' = retryAfter(r.err, rlTimer)
         /\ last' = [Step("pass", "") EXCEPT !.issued = r.issued,
                        !.warned = r.warned, !.examined = r.examined,
                        !.err = r.err, !.burst = burst, !.from = last.from,
                        !.retried = FailedCalls # {} /\
                                    FailedCalls \subseteq r.issued]
    /\ rlTick' = FALSE
    /\ burst' = {}
    /\ UNCHANGED <<rl, net, pc, pendingErr, foos, deployments, ch, stopCh, prod, sent,
                   crdSent, hostpc, errs, errorsClosed>>

\* The host receives the error the goroutine is sending on c.Errors
HostRecv ==
    /\ pc = "sendErr"
    /\ errs' = Append(errs, pendingErr)
    /\ pendingErr' = NoPendingErr
    /\ pc' = "closing"
    /\ UNCHANGED <<rl, net, foos, deployments, todo, ch, stopCh, prod, sent, crdSent,
                   rlTimer, rlTick, hostpc, errorsClosed, last, burst>>

\* close(c.Errors): deferred in processResources, explicit in startAux
CloseErrors ==
    /\ pc = "closing"
    /\ errorsClosed' = TRUE
    /\ pc' = "done"
    /\ UNCHANGED <<rl, net, pendingErr, foos, deployments, todo, ch, stopCh, prod, sent,
                   crdSent, rlTimer, rlTick, hostpc, errs, last, burst>>

----------------------------------------------------------------------------
(* The host: Controller.RequestStop, called once.  It reads the two fields *)
(* with no synchronization with startAux, one after the other.            *)

closeIfSet(s) == [stopCh EXCEPT ![s] = IF stopCh[s] = "nil" THEN "nil" ELSE "closed"]

RequestStopFoos ==
    /\ hostpc = "idle"
    /\ hostpc' = "stopping"
    /\ stopCh' = closeIfSet("foos")
    /\ UNCHANGED <<rl, net, pc, pendingErr, foos, deployments, todo, ch, prod, sent,
                   crdSent, rlTimer, rlTick, errs, errorsClosed, last, burst>>

RequestStopDeployments ==
    /\ hostpc = "stopping"
    /\ hostpc' = "stopped"
    /\ stopCh' = closeIfSet("deployments")
    /\ UNCHANGED <<rl, net, pc, pendingErr, foos, deployments, todo, ch, prod, sent,
                   crdSent, rlTimer, rlTick, errs, errorsClosed, last, burst>>

----------------------------------------------------------------------------
Producers == \E s \in Streams : ProdDecode(s) \/ ProdCancelled(s)

Loop ==
    \/ AddCRDPost \/ AddCRDWatch \/ OpenFoos \/ OpenDeployments
    \/ RecvFoo \/ RecvDeployment \/ (\E s \in Streams : RecvClosed(s))
    \/ Tick \/ CloseErrors

Debouncer == TimerExpire \/ RLTimerC

Host == HostRecv \/ RequestStopFoos \/ RequestStopDeployments

Next == Loop \/ Producers \/ Debouncer \/ Host

Spec == Init /\ [][Next]_vars

----------------------------------------------------------------------------
(* The debouncer on its own, with a caller of AskTick and Stop and a       *)
(* consumer of the ticks                                                   *)

\* What the controller is made of stays as constructed
ctlvars == <<pc, pendingErr, foos, deployments, todo, ch, stopCh, prod, sent,
             crdSent, hostpc, errs, errorsClosed, last, burst, net>>

\* AskTick is called: the caller blocks in rl.ask <- struct{}{}
RLAskCall ==
    /\ rl.caller = "idle"
    /\ rl.asks < MaxAsks
    /\ rl' = [rl EXCEPT !.caller = "askTick"]
    /\ UNCHANGED <<ctlvars, rlTimer, rlTick>>

\* A goroutine that is not in its select while a tick waits for its reader
RLAskServe_NoTickPending ==
    /\ rl.g = "running"
    /\ rl.caller = "askTick"
    /\ ~rlTick
    /\ rlTimer' = AskTick(rlTimer)
    /\ rl' = [rl EXCEPT !.caller = "idle", !.asks = @ + 1]
    /\ UNCHANGED <<ctlvars, rlTick>>

\* case <-ret.ask: the goroutine receives the ask, AskTick returns
RLAskServe ==
    /\ rl.g = "running"
    /\ rl.caller = "askTick"
    /\ rlTimer' = AskTick(rlTimer)
    /\ rl' = [rl EXCEPT !.caller = "idle", !.asks = @ + 1]
    /\ UNCHANGED <<ctlvars, rlTick>>

\* Stop is called: the caller blocks in rl.stop <- struct{}{}
RLStopCall ==
    /\ rl.caller = "idle"
    /\ rl' = [rl EXCEPT !.caller = "stop"]
    /\ UNCHANGED <<ctlvars, rlTimer, rlTick>>

\* case <-ret.stop: the goroutine receives the stop and returns, Stop returns
RLStopServe ==
    /\ rl.g = "running"
    /\ rl.caller = "stop"
    /\ rl' = [rl EXCEPT !.caller = "idle", !.g = "returned"]
    /\ UNCHANGED <<ctlvars, rlTimer, rlTick>>

\* The timer expires
RLExpire ==
    /\ rlTimer = "armed"
    /\ rlTimer' = "fired"
    /\ rl' = [rl EXCEPT !.expiries = @ + 1]
    /\ UNCHANGED <<ctlvars, rlTick>>

\* The value of the timer is received and no tick is made pending
RLTake_Drop ==
    /\ rl.g = "running"
    /\ rlTimer = "fired"
    /\ rlTimer' = "stopped"
    /\ rl' = [rl EXCEPT !.takes = @ + 1]
    /\ UNCHANGED <<ctlvars, rlTick>>

\* case <-timer.C: tick = ret.tick
RLTake ==
    /\ rl.g = "running"
    /\ rlTimer = "fired"
    /\ rlTimer' = "stopped"
    /\ rlTick' = TRUE
    /\ rl' = [rl EXCEPT !.takes = @ + 1]
    /\ UNCHANGED ctlvars

\* A delivery after which the send stays enabled
RLDeliver_KeepsTick ==
    /\ rl.g = "running"
    /\ rlTick
    /\ rl.ticks < MaxAsks + 1
    /\ rl' = [rl EXCEPT !.ticks = @ + 1]
    /\ UNCHANGED <<ctlvars, rlTimer, rlTick>>

\* case tick <- struct{}{}: the consumer receives a tick, tick = nil
RLDeliver ==
    /\ rl.g = "running"
    /\ rlTick
    /\ rlTick' = FALSE
    /\ rl' = [rl EXCEPT !.ticks = @ + 1]
    /\ UNCHANGED <<ctlvars, rlTimer>>

RLNext ==
    \/ RLAskCall \/ RLAskServe \/ RLStopCall \/ RLStopServe
    \/ RLExpire \/ RLTake \/ RLDeliver

RLSpec == Init /\ [][RLNext]_vars

\* The goroutine is scheduled: while a caller is blocked in the send of
\* AskTick the ask case of its select is ready, and it is taken in the end
RLFairSpec == RLSpec /\ WF_vars(RLAskServe)

\* The timer runs, the goroutine is scheduled and takes every ready case of
\* its select in the end, and the consumer keeps reading the tick channel
RLLiveSpec ==
    /\ RLSpec
    /\ WF_vars(RLAskServe) /\ WF_vars(RLExpire) /\ WF_vars(RLTake)
    /\ WF_vars(RLDeliver)

----------------------------------------------------------------------------
(* The two watches of a running controller, with what the server writes   *)
(* on each connection kept in order                                        *)

\* The envelopes the server writes here: well-formed MODIFIED and DELETED
\* events (parseEventType takes ADDED as it takes MODIFIED), for Foos that
\* ask for one replica and for the deployment bar with no owner or
\* controlled by abc
StreamEnvelopes(s) ==
    IF s = "foos"
    THEN {e \in Envelopes({f \in FooSet : f.Spec.Replicas = 1}) :
             EnvelopeClass(e) = "ok" /\ e.type # "ADDED"}
    ELSE {e \in Envelopes({d \in DeploymentSet :
                              /\ d.ResourceVersion = 1 /\ d.Spec.Replicas = 1
                              /\ d.OwnerReferences \in
                                    {<<>>, <<OwnerRef(Kind, "abc", UIDOf("abc"), TRUE)>>}}) :
             EnvelopeClass(e) = "ok" /\ e.type # "ADDED"}

\* The controller is running: the type is registered, both watches are open
\* and nothing has been written on them
StreamInit ==
    /\ pc = "select"
    /\ pendingErr = NoPendingErr
    /\ foos = EmptyMap
    /\ deployments = EmptyMap
    /\ todo = {}
    /\ ch = [s \in Streams |-> "open"]
    /\ stopCh = [s \in Streams |-> "open"]
    /\ prod = [s \in Streams |-> "decode"]
    /\ sent = 0
    /\ crdSent = 0
    /\ rlTimer = "stopped"
    /\ rlTick = FALSE
    /\ hostpc = "idle"
    /\ errs = <<>>
    /\ errorsClosed = FALSE
    /\ last = Step("open", "deployments")
    /\ burst = {}
    /\ rl = RLStart
    /\ net = NetStart

\* The server writes one more envelope on the connection of stream s
ServerWrite(s) ==
    /\ Len(net.log["foos"]) + Len(net.log["deployments"]) < MaxEvents
    /\ \E e \in StreamEnvelopes(s) :
         net' = [net EXCEPT !.body[s] = Append(@, e), !.log[s] = Append(@, e)]
    /\ UNCHANGED <<rl, pc, pendingErr, foos, deployments, todo, ch, stopCh, prod,
                   sent, crdSent, rlTimer, rlTick, hostpc, errs, errorsClosed,
                   last, burst>>

\* A decoder that returns the envelope written last
StreamDecode_Newest(s) ==
    /\ prod[s] = "decode"
    /\ stopCh[s] # "closed"
    /\ net.body[s] # <<>>
    /\ LET n == Len(net.body[s])
           d == Delivery(net.body[s][n]) IN
       /\ prod' = [prod EXCEPT ![s] = sendOf(d.ev)]
       /\ net' = [net EXCEPT !.body[s] = SubSeq(@, 1, n - 1), !.held[s] = <<d>>]
    /\ sent' = sent + 1
    /\ UNCHANGED <<rl, pc, pendingErr, foos, deployments, todo, ch, stopCh,
                   crdSent, rlTimer, rlTick, hostpc, errs, errorsClosed, last,
                   burst>>

\* decoder.Decode returns the next envelope of the body, and the producer
\* enters send with the event it makes of it
StreamDecode(s) ==
    /\ prod[s] = "decode"
    /\ stopCh[s] # "closed"
    /\ net.body[s] # <<>>
    /\ LET d == Delivery(Head(net.body[s])) IN
       /\ prod' = [prod EXCEPT ![s] = sendOf(d.ev)]
       /\ net' = [net EXCEPT !.body[s] = Tail(@), !.held[s] = <<d>>]
    /\ sent' = sent + 1
    /\ UNCHANGED <<rl, pc, pendingErr, foos, deployments, todo, ch, stopCh,
                   crdSent, rlTimer, rlTick, hostpc, errs, errorsClosed, last,
                   burst>>

\* case f, ok := <-foosCh: the loop receives the event the producer is sending
StreamRecvFoo ==
    /\ pc = "select"
    /\ ch["foos"] = "open"
    /\ net.held["foos"] # <<>>
    /\ HandleFoo(Head(net.held["foos"]))
    /\ net' = [net EXCEPT !.held["foos"] = <<>>]

\* case d, ok := <-deploymentsCh, likewise
StreamRecvDeployment ==
    /\ pc = "select"
    /\ ch["deployments"] = "open"
    /\ net.held["deployments"] # <<>>
    /\ HandleDeployment(Head(net.held["deployments"]))
    /\ net' = [net EXCEPT !.held["deployments"] = <<>>]

StreamNext ==
    \/ \E s \in Streams : ServerWrite(s) \/ StreamDecode(s)
    \/ StreamRecvFoo \/ StreamRecvDeployment
    \/ TimerExpire \/ RLTimerC \/ Tick

StreamSpec == StreamInit /\ [][StreamNext]_vars

----------------------------------------------------------------------------
(* Rest *)

\* No goroutine of the program can take a step: what remains is up to the
\* server (another envelope on a watch, another event of the registration
\* watch) and to the host (RequestStop).
Quiescent ==
    ~ENABLED (\/ TimerExpire \/ RLTimerC
              \/ CloseErrors \/ HostRecv
              \/ AddCRDPost \/ OpenFoos \/ OpenDeployments
              \/ (\E s \in Streams : ProdCancelled(s) \/ RecvClosed(s))
              \/ RecvFoo \/ RecvDeployment \/ Tick)

\* The loop goroutine has left the select loop (or never entered it) on the
\* way to its return
Terminating == pc \in {"sendErr", "closing", "done"}

\* Every error the host has received or is about to receive
Reported == {errs[i] : i \in 1..Len(errs)}
            \cup (IF pc = "sendErr" THEN {pendingErr} ELSE {})

----------------------------------------------------------------------------
(* The calls and the ownership the specification speaks of *)

\* A step of the loop that is a synchronization pass
PassStep == rlTick /\ ~rlTick'

\* The controller owner reference of dep carries the uid
ControllerUIDIs(dep, uid) ==
    \E i \in 1..Len(dep.OwnerReferences) :
        dep.OwnerReferences[i].Controller /\ dep.OwnerReferences[i].UID = uid

\* The deployment a Foo asks for
DesiredFor(foo, resourceVersion) ==
    [Name |-> foo.Spec.DeploymentName,
     ResourceVersion |-> resourceVersion,
     OwnerReferences |-> <<[Kind |-> "Foo", Name |-> foo.Name, UID |-> foo.UID,
                            Controller |-> TRUE]>>,
     Spec |-> [Replicas |-> foo.Spec.Replicas]]

CreateFor(foo) == [verb |-> "POST", dep |-> DesiredFor(foo, 0), item |-> foo.Name]

UpdateFor(foo, dep) ==
    [verb |-> "PUT", dep |-> DesiredFor(foo, dep.ResourceVersion), item |-> foo.Name]

\* The calls the last pass issued for the Foo named n
IssuedFor(n) == {c \in last.issued : c.item = n}

\* The Foo named n is in desired and its target is not observed
Missing(n) ==
    n \in DOMAIN foos /\ foos[n].Spec.DeploymentName \notin DOMAIN deployments

\* The Foo named n is in desired, its target is observed and controlled by it,
\* and the replica counts differ
Stale(n) ==
    /\ n \in DOMAIN foos
    /\ foos[n].Spec.DeploymentName \in DOMAIN deployments
    /\ LET dep == deployments[foos[n].Spec.DeploymentName] IN
       /\ ControllerUIDIs(dep, foos[n].UID)
       /\ dep.Spec.Replicas # foos[n].Spec.Replicas

\* The Foo named n is in desired and its target is observed but not
\* controlled by it
Conflict(n) ==
    /\ n \in DOMAIN foos
    /\ foos[n].Spec.DeploymentName \in DOMAIN deployments
    /\ ~ControllerUIDIs(deployments[foos[n].Spec.DeploymentName], foos[n].UID)

----------------------------------------------------------------------------
(* C1 *)

----------------------------------------------------------------------------
(* C2 *)

----------------------------------------------------------------------------
(* C3 *)

\* C3: when the loop has processed the Delete of an observed deployment T
\* while a Foo in desired targets T, a create of T is still to come: the
\* program is not at rest.
C3_Original ==
    ~ /\ pc = "select"
      /\ last.kind = "depDelete" /\ last.ok
      /\ \E n \in DOMAIN foos : foos[n].Spec.DeploymentName = last.name
      /\ Quiescent

----------------------------------------------------------------------------
(* C4 *)

\* C4: a pass that examines a Foo N whose target T is observed but not
\* controlled by N issues no create or update call for T, logs the warning
\* for N and leaves N dirty; so it is on every such pass.
C4_NotOwned ==
    last.kind = "pass" =>
        \A n \in last.examined :
            Conflict(n) =>
                /\ \A c \in last.issued : c.dep.Name # foos[n].Spec.DeploymentName
                /\ n \in last.warned
                /\ n \in todo

\* A pass examined the Foo abc while bar is controlled by another uid
C4_Witness ==
    /\ last.kind = "pass" /\ "abc" \in last.examined
    /\ Conflict("abc")
    /\ deployments["bar"].OwnerReferences = <<OwnerRef(Kind, "abc", WrongUID, TRUE)>>
    /\ "abc" \in last.warned /\ "abc" \in todo /\ last.issued = {}

----------------------------------------------------------------------------
(* C9 *)

\* C9 as stated: the pass that follows a burst of Foo Upserts examines every
\* name of the burst and is the only one: it leaves the debouncer idle.
C9_Original ==
    [][(PassStep /\ burst # {}) => burst \subseteq last'.examined /\ RLIdle']_vars

\* C9, amended: during a burst of Foo Upserts no pass runs and every name of
\* the burst is dirty; the pass that follows the burst examines every name of
\* the burst and leaves the debouncer idle, unless a create or update call in
\* it fails: then the name of the failed call and the names not examined stay
\* dirty and a tick is asked for again.
C9_Burst ==
    /\ [](burst # {} => burst \subseteq todo /\ (rlTimer = "armed" => ~rlTick))
    /\ [][(PassStep /\ burst # {}) =>
            IF last'.err
            THEN /\ rlTimer' = "armed"
                 /\ \E c \in last'.issued : c.item \in todo'
                 /\ burst \ last'.examined \subseteq todo'
            ELSE burst \subseteq last'.examined /\ RLIdle']_vars

\* One pass followed the burst of the Upserts of abc and def, examined both
\* and left the debouncer idle
C9_Witness ==
    /\ last.kind = "pass" /\ ~last.err
    /\ last.burst = {"abc", "def"} /\ last.examined = {"abc", "def"}
    /\ RLIdle

----------------------------------------------------------------------------
(* C10 *)

\* C10: when the registration POST is answered 409, addCRD goes on to the
\* registration watch and no error is reported for it; when it is answered
\* any other status outside 200..299, the controller reports the error
\* "Could not add CRD: http request failed: <status>" at once and terminates.
C10_Conflict409 ==
    /\ last.kind = "crdPost" =>
          IF last.code = 409 \/ (last.code >= 200 /\ last.code < 300)
          THEN pc = "crdWatch" /\ Reported = {}
          ELSE last.code # -1 =>
                 /\ Terminating
                 /\ Reported = {[prefix |-> "Could not add CRD",
                                 cause |-> "http request failed",
                                 code |-> last.code]}
    /\ \A e \in Reported : e.cause = "http request failed" => e.code # 409

\* The POST was answered 409 and addCRD polls the registration watch
C10_Witness ==
    last.kind = "crdPost" /\ last.code = 409 /\ pc = "crdWatch" /\ errs = <<>>

----------------------------------------------------------------------------
(* C5 *)

\* C5: after the loop received an Error event from a stream while Running,
\* it takes no further step of the select loop (no event, no tick), exactly
\* one error is reported on Errors, prefixed "Reading Foos" for the Foo stream
\* and "Reading deployments" for the deployment stream and carrying the
\* event's cause, after it Errors is closed, and RequestStop adds nothing.
C5_WatchError ==
    /\ Len(errs) <= 1
    /\ last.kind = "error" =>
          LET prefix == IF last.name = "foos" THEN "Reading Foos"
                        ELSE "Reading deployments"
          IN /\ Terminating
             /\ Cardinality(Reported) = 1
             /\ \A e \in Reported :
                    /\ e.prefix = prefix
                    /\ e.cause \in {"Watch failed", "Could not decode WatchEvent",
                                    "Invalid EventType",
                                    "Unmarshaling of resource failed"}
             /\ errorsClosed => Len(errs) = 1
             /\ ~errorsClosed => ~Quiescent

\* The deployment stream failed, the error was received, Errors is closed,
\* and RequestStop has been called
C5_Witness ==
    /\ last.kind = "error" /\ last.name = "deployments"
    /\ errorsClosed /\ hostpc = "stopped"
    /\ Len(errs) = 1 /\ errs[1].prefix = "Reading deployments"

----------------------------------------------------------------------------
(* C6 *)

\* C6: once the controller has terminated on a watch error (Errors closed),
\* both cancel handles are closed.
C6_Original ==
    (last.kind = "error" /\ errorsClosed) =>
        \A s \in Streams : stopCh[s] = "closed"

----------------------------------------------------------------------------
(* C7 *)

\* C7: a pass that runs after RequestStop returned, both cancel handles
\* closed by it, issues no create or update call.
C7_Original ==
    [][(/\ hostpc = "stopped"
        /\ \A s \in Streams : stopCh[s] = "closed"
        /\ PassStep) => last'.issued = {}]_vars

----------------------------------------------------------------------------
(* C8 *)

\* C8: after RequestStop returned the controller does not come to rest in
\* its select loop with Errors open.
C8_Original ==
    (hostpc = "stopped" /\ pc = "select" /\ Quiescent) => errorsClosed

----------------------------------------------------------------------------
(* Failures of the start-up *)

\* The cause an Error event carries for what the server had sent
CauseOf(env) ==
    IF env = "openFailed" THEN "Watch failed"
    ELSE IF env = "malformed" THEN "Could not decode WatchEvent"
    ELSE IF env = "type" THEN "Invalid EventType"
    ELSE "Unmarshaling of resource failed"

\* The registration failed: the POST was answered with an HTTP error other
\* than 409, or the registration watch yielded an Error event
StartupFailed ==
    \/ /\ last.kind = "crdPost"
       /\ last.code # -1 /\ last.code # 409
       /\ ~(last.code >= 200 /\ last.code < 300)
    \/ last.kind = "crdWatch" /\ last.env # "ok"

\* C11: after the registration failed during Starting (HTTP error other than
\* 409 to the POST; on the registration watch an open failure, a decode
\* error, an invalid event type or an unmarshal failure), the goroutine is on
\* its way out without having entered the select loop, exactly one error,
\* prefixed "Could not add CRD" and carrying the cause, is reported, no watch
\* of Foos or deployments was opened (no stream, no cancel handle, no
\* producer), Errors is closed once the error was received, and RequestStop
\* changes none of this.
C11_StartupError ==
    StartupFailed =>
        /\ Terminating
        /\ Cardinality(Reported) = 1
        /\ \A e \in Reported :
               /\ e.prefix = "Could not add CRD"
               /\ IF last.kind = "crdPost"
                  THEN e.cause = "http request failed" /\ e.code = last.code
                  ELSE e.cause = CauseOf(last.env)
        /\ \A s \in Streams :
               ch[s] = "unset" /\ stopCh[s] = "nil" /\ prod[s] = "none"
        /\ foos = EmptyMap /\ deployments = EmptyMap /\ todo = {}
        /\ RLIdle
        /\ errorsClosed => Len(errs) = 1
        /\ ~errorsClosed => ~Quiescent

\* The registration watch yielded an event of an invalid type, the error was
\* received, Errors is closed, and RequestStop has returned
C11_Witness ==
    /\ last.kind = "crdWatch" /\ last.env = "type"
    /\ errorsClosed /\ hostpc = "stopped"
    /\ Len(errs) = 1 /\ errs[1].cause = "Invalid EventType"

----------------------------------------------------------------------------
(* Failed passes *)

\* A synchronization pass in which a call failed
FailedPass == PassStep /\ last'.err

\* C12: a pass in which a create or update call failed leaves foos and
\* deployments as they were and adds nothing to todo; the name whose call
\* failed is the one examined last, a call was issued for it and it stays in
\* todo; every name the pass did not reach stays in todo; every name examined
\* before the failure is gone from todo (nothing is rolled back), except the
\* names the pass logged the ownership warning for, which it keeps on purpose.
C12_FailedPassFrame ==
    [][FailedPass =>
         /\ foos' = foos
         /\ deployments' = deployments
         /\ todo' \subseteq todo
         /\ (todo \ last'.examined) \subseteq todo'
         /\ \E f \in last'.examined :
               /\ f \in todo'
               /\ \E c \in last'.issued : c.item = f
               /\ f \notin last'.warned
               /\ \A n \in last'.examined \ {f} :
                      n \in todo' <=> n \in last'.warned]_vars

\* A pass failed on one name after it had completed a call for another one,
\* which is gone from todo
C12_Witness ==
    /\ last.kind = "pass" /\ last.err
    /\ \E n \in last.examined \ todo : \E c \in last.issued : c.item = n

\* C13 as stated: the pass that follows a failed pass, with no event handled
\* in between, issues the failed call again.
C13_Original ==
    [][(PassStep /\ FailedCalls # {}) => FailedCalls \subseteq last'.issued]_vars

\* C13: a failed pass leaves the loop in its select with Errors open and
\* nothing reported, and arms the debouncer once, with no tick pending; while
\* the loop stays in the select a requested tick is not lost before a pass
\* takes it; and the pass that follows a failed pass with no event handled
\* in between issues a call, which is the failed call again unless the pass
\* fails on the call of another name before it reaches the failed one.
C13_FailedPassRetry ==
    [][/\ FailedPass =>
            /\ pc = "select" /\ pc' = "select"
            /\ ~errorsClosed' /\ errs' = errs /\ pendingErr' = NoPendingErr
            /\ ch' = ch /\ prod' = prod
            /\ rlTimer' = "armed" /\ ~rlTick'
       /\ (~RLIdle /\ pc' = "select") => (~RLIdle' \/ PassStep)
       /\ (PassStep /\ FailedCalls # {}) =>
            /\ last'.issued # {}
            /\ \/ FailedCalls \subseteq last'.issued
               \/ /\ last'.err
                  /\ \A c \in FailedCalls : c.item \notin last'.examined]_vars

\* Two failed passes in a row, the second on the call the first had failed on
C13_Witness ==
    /\ last.kind = "pass" /\ last.err /\ last.retried
    /\ pc = "select" /\ ~errorsClosed /\ rlTimer = "armed"

----------------------------------------------------------------------------
(* What reaches Errors *)

\* C14 as stated: a failed pass puts a value on Errors.
C14_Original == [][FailedPass => Reported' # Reported]_vars

\* C14: the loop leaves its select to send on Errors exactly when it has
\* received an Error event from a stream, and what it sends carries the
\* prefix of the stream and the cause of the event; the host receives what
\* the loop sends and nothing else; a failed pass sends nothing on Errors and
\* leaves the loop in its select.
C14_ErrorsOutput ==
    [][/\ (pc = "select" /\ last' # last) =>
            /\ last'.kind = "error" <=> pc' = "sendErr"
            /\ last'.kind = "error" =>
                  /\ last'.env # "ok"
                  /\ pendingErr' = [prefix |-> IF last'.name = "foos"
                                               THEN "Reading Foos"
                                               ELSE "Reading deployments",
                                    cause |-> CauseOf(last'.env), code |-> 0]
       /\ errs' # errs => pc = "sendErr" /\ errs' = Append(errs, pendingErr)
       /\ FailedPass => Reported' = Reported /\ pc' = "select"]_vars

\* A pass has failed and nothing was sent on Errors, which is still open
C14_Witness ==
    /\ last.kind = "pass" /\ last.err
    /\ Reported = {} /\ ~errorsClosed /\ hostpc = "idle"

----------------------------------------------------------------------------
(* The watch producers *)

\* The steps of the loop that handle a data event
DataKinds == {"fooUpsert", "fooDelete", "depUpsert", "depDelete"}

\* C18: the loop handles a data event only for a regular envelope; for bytes
\* that are no envelope, an envelope of an unknown type and a payload that is
\* not of the watched type the producer holds an Error event, which it never
\* exchanges for another event; the event the loop receives for them is an
\* Error event carrying the matching cause, and with its delivery the
\* producer has returned and closed the stream; a producer that has returned
\* reads and sends nothing any more.
C18_TerminalError ==
    [][/\ last'.kind \in DataKinds => last'.env = "ok"
       /\ (last'.kind = "error" /\ last' # last) =>
            /\ last'.env \in {"openFailed", "malformed", "type", "payload"}
            /\ pendingErr'.cause = CauseOf(last'.env)
            /\ prod[last'.name] \in {"sendErr", "openErr"}
            /\ prod[last'.name] = "openErr" <=> last'.env = "openFailed"
            /\ prod'[last'.name] = "closed"
       /\ \A s \in Streams :
            /\ prod[s] = "sendErr" => prod'[s] \in {"sendErr", "closed"}
            /\ prod[s] = "closed" => prod'[s] = "closed"]_vars

\* The Foo stream carried a payload that is no Foo: the loop received the
\* Error event for it and the producer has closed the stream
C18_Witness ==
    /\ last.kind = "error" /\ last.name = "foos" /\ last.env = "payload"
    /\ prod["foos"] = "closed"
    /\ Reported = {[prefix |-> "Reading Foos",
                    cause |-> "Unmarshaling of resource failed", code |-> 0]}

\* The loop receives the Error event the producer of s holds
Delivered(s) ==
    /\ pc = "select" /\ pc' = "sendErr"
    /\ last'.kind = "error" /\ last'.name = s

\* C19 as stated: a read failure the producer met with no cancellation
\* requested is delivered as an Error event.
C19_Original ==
    [][\A s \in Streams :
          (prod[s] = "sendErr" /\ prod'[s] # "sendErr") => Delivered(s)]_vars

\* C19: once the cancel handle of a stream is closed its producer decodes no
\* further event: what its read yields from then on is swallowed and it
\* returns and closes the stream; a failure is taken up as an Error event
\* only while the handle is open; the producer holding such an event leaves
\* it only by closing the stream, either with the delivery of the event to
\* the loop or, once the handle is closed, without delivering anything; and
\* when no goroutine can move, no producer whose handle is closed is still
\* decoding or holding an event.
C19_Cancellation ==
    /\ [](\A s \in Streams :
            (stopCh[s] = "closed" /\ prod[s] \in {"decode", "send", "sendErr"})
               => ~Quiescent)
    /\ [][\A s \in Streams :
            /\ (prod[s] = "decode" /\ stopCh[s] = "closed") =>
                  prod'[s] \in {"decode", "closed"}
            /\ (prod[s] = "decode" /\ prod'[s] \in {"send", "sendErr"}) =>
                  stopCh[s] = "open"
            /\ (prod[s] = "sendErr" /\ prod'[s] # "sendErr") =>
                  /\ prod'[s] = "closed"
                  /\ \/ Delivered(s)
                     \/ /\ stopCh[s] = "closed"
                        /\ UNCHANGED <<pc, pendingErr, errs, last>>]_vars

\* The Foo producer holds an Error event it took up before the cancel handle
\* was closed, and the loop is still in its select
C19_Witness ==
    /\ prod["foos"] = "sendErr" /\ stopCh["foos"] = "closed"
    /\ pc = "select" /\ ch["foos"] = "open"

\* C20 as stated: when no goroutine can move, every producer whose cancel
\* handle is closed has returned and closed its stream.
C20_Original ==
    Quiescent => \A s \in Streams : stopCh[s] = "closed" => prod[s] = "closed"

----------------------------------------------------------------------------
(* The debouncer *)

\* The goroutine of the debouncer serves an AskTick
AskServed == rl'.asks # rl.asks

\* C15: every AskTick the debouncer serves leaves the timer armed, whether
\* it was stopped, armed or expired with its value not yet taken; the timer
\* expires only when armed; a tick becomes available only when the goroutine
\* takes the value of an expired timer, which an AskTick served after the
\* expiry has removed; and when the debouncer has come to rest after at
\* least one AskTick, at least one tick and at most one tick per expiry was
\* delivered, so that AskTicks with a single expiry after them have
\* produced exactly one tick.
C15_Debounce ==
    /\ []((rl.g = "running" /\ RLIdle /\ rl.asks >= 1) =>
            /\ rl.ticks >= 1 /\ rl.ticks <= rl.expiries
            /\ (rl.expiries = 1 => rl.ticks = 1))
    /\ [][/\ AskServed => rlTimer' = "armed"
          /\ rl'.expiries # rl.expiries =>
                rlTimer = "armed" /\ rlTimer' = "fired"
          /\ (~rlTick /\ rlTick') =>
                /\ rlTimer = "fired" /\ rlTimer' = "stopped"
                /\ rl'.takes = rl.takes + 1]_vars

\* Three AskTicks, one expiry after the last of them, one tick delivered
C15_Witness ==
    /\ rl.asks = 3 /\ rl.expiries = 1 /\ rl.ticks = 1
    /\ RLIdle /\ rl.g = "running"

\* C16 as stated: once Stop has returned, a caller inside AskTick can be
\* served, so that AskTick returns.
C16_Original ==
    (rl.g = "returned" /\ rl.caller = "askTick") => ENABLED RLAskServe

\* C17: the ticks delivered and the one that may be pending never exceed the
\* values taken from the timer, which with the one that may be waiting never
\* exceed the expiries of the timer; a delivery takes the pending tick and
\* leaves none pending; an AskTick served while a tick is pending leaves it
\* pending and delivers nothing.
C17_PendingTick ==
    /\ [](/\ rl.ticks + (IF rlTick THEN 1 ELSE 0) <= rl.takes
          /\ rl.takes + (IF rlTimer = "fired" THEN 1 ELSE 0) <= rl.expiries)
    /\ [][/\ rl'.ticks # rl.ticks =>
                rlTick /\ ~rlTick' /\ rl'.ticks = rl.ticks + 1
          /\ AskServed => (rlTick' = rlTick /\ rl'.ticks = rl.ticks)]_vars

\* A tick is pending, unread, and the timer is armed again by an AskTick
\* served after the expiry
C17_Witness ==
    /\ rlTick /\ rlTimer = "armed"
    /\ rl.asks = 2 /\ rl.takes = 1 /\ rl.ticks = 0

----------------------------------------------------------------------------
(* Termination on RequestStop *)

\* C21: a step of RequestStop changes neither the position of the loop nor
\* its streams nor Errors; the loop leaves its select without an error only
\* with the step that finds the second of its two streams closed, each
\* stream having been closed by its producer; Errors is closed once, by the
\* goroutine on its way out, and stays closed; it is closed only after both
\* streams were found closed, or after an Error event was received, or after
\* the registration failed; after RequestStop returned, an event a producer
\* holds for the loop in its select can still be received; and with both
\* cancel handles closed the program does not come to rest with Errors open.
C21_StopWhenBothClosed ==
    /\ [](/\ errorsClosed =>
               \/ \A s \in Streams : ch[s] = "nil"
               \/ last.kind = "error"
               \/ StartupFailed
          /\ (hostpc = "stopped" /\ pc = "select" /\ ch["foos"] = "open"
                /\ prod["foos"] = "send") => ENABLED RecvFoo
          /\ ((\A s \in Streams : stopCh[s] = "closed") /\ ~errorsClosed)
                => ~Quiescent)
    /\ [][/\ hostpc' # hostpc =>
               pc' = pc /\ ch' = ch /\ errorsClosed' = errorsClosed
          /\ (pc = "select" /\ pc' = "closing") =>
               /\ \A s \in Streams : ch'[s] = "nil" /\ prod[s] = "closed"
               /\ \E s \in Streams : ch[s] = "open"
               /\ last'.kind = "closed"
          /\ errorsClosed' # errorsClosed =>
               ~errorsClosed /\ pc = "closing" /\ pc' = "done"
          /\ pc = "done" => pc' = "done" /\ errorsClosed']_vars

\* RequestStop was called while Running with events under way: both streams
\* were found closed, nothing was reported and Errors is closed
C21_Witness ==
    /\ hostpc = "stopped" /\ errorsClosed /\ errs = <<>>
    /\ \A s \in Streams : ch[s] = "nil" /\ stopCh[s] = "closed"
    /\ sent >= 2

----------------------------------------------------------------------------
(* The event handlers *)

\* The loop handles a data event of the deployment stream
DepStep ==
    /\ pc = "select" /\ pc' = "select"
    /\ prod["deployments"] = "send" /\ prod'["deployments"] = "decode"

\* The names of the owner references of kind Foo that a snapshot carries
FooOwners(dep) ==
    {dep.OwnerReferences[i].Name :
        i \in {j \in 1..Len(dep.OwnerReferences) :
                  dep.OwnerReferences[j].Kind = Kind}}

\* The Foo owners of the deployment named n in the map m
FooOwnersIn(m, n) == IF n \in DOMAIN m THEN FooOwners(m[n]) ELSE {}

\* C22 as stated: a deployment event leaves in todo the name of every owner
\* reference of kind Foo of the snapshot observed before it and of the one
\* observed after it, and leaves the timer armed if there is any.
C22_Original ==
    [][DepStep =>
         LET n == last'.name
             owners == FooOwnersIn(deployments, n) \cup FooOwnersIn(deployments', n)
         IN /\ owners \subseteq todo'
            /\ owners # {} => rlTimer' = "armed"]_vars

\* The loop handles a data event of the Foo stream
FooStep ==
    /\ pc = "select" /\ pc' = "select"
    /\ prod["foos"] = "send" /\ prod'["foos"] = "decode"

\* C23: the handler of a Foo event stores the Foo of an Upsert in foos under
\* its name and removes the name of a Delete from foos, leaving every other
\* entry of foos as it was; in both cases it adds the name to todo, leaves
\* the timer armed and a pending tick pending, changes nothing in
\* deployments, issues no call and reports nothing.
C23_FooHandler ==
    [][FooStep =>
         LET n == last'.name IN
         /\ last'.kind \in {"fooUpsert", "fooDelete"}
         /\ last'.kind = "fooUpsert" =>
               n \in DOMAIN foos' /\ foos'[n] \in FooSet /\ foos'[n].Name = n
         /\ last'.kind = "fooDelete" => n \notin DOMAIN foos'
         /\ DOMAIN foos' \ {n} = DOMAIN foos \ {n}
         /\ \A m \in DOMAIN foos \ {n} : foos'[m] = foos[m]
         /\ todo' = todo \cup {n}
         /\ rlTimer' = "armed" /\ rlTick' = rlTick
         /\ deployments' = deployments
         /\ last'.issued = {}
         /\ UNCHANGED <<errs, pendingErr, errorsClosed, ch, stopCh>>]_vars

\* The Delete of a Foo whose deployment is observed was handled: the Foo is
\* gone from foos, its name is in todo, the timer is armed and the deployment
\* is still observed
C23_Witness ==
    /\ last.kind = "fooDelete" /\ last.name = "abc"
    /\ "abc" \notin DOMAIN foos /\ "abc" \in todo /\ rlTimer = "armed"
    /\ "bar" \in DOMAIN deployments
    /\ ControllerUIDIs(deployments["bar"], UIDOf("abc"))

----------------------------------------------------------------------------
(* Ownership *)

\* The first controlling owner reference of dep carries the uid of foo
FirstControllerHasUID(dep, foo) ==
    \E i \in 1..Len(dep.OwnerReferences) :
        /\ dep.OwnerReferences[i].Controller
        /\ dep.OwnerReferences[i].UID = foo.UID
        /\ \A j \in 1..(i - 1) : ~dep.OwnerReferences[j].Controller

\* dep has a controlling owner reference that is not the one of foo by its
\* kind, its name or its uid
ForeignController(dep, foo) ==
    \E i \in 1..Len(dep.OwnerReferences) :
        /\ dep.OwnerReferences[i].Controller
        /\ \/ dep.OwnerReferences[i].Kind # Kind
           \/ dep.OwnerReferences[i].Name # foo.Name
           \/ dep.OwnerReferences[i].UID # foo.UID

\* The Foos a pass has examined whose target is observed
ExaminedWithTarget ==
    {n \in last.examined \cap DOMAIN foos :
        foos[n].Spec.DeploymentName \in DOMAIN deployments}

----------------------------------------------------------------------------
(* The dirty set *)

\* The Foo named n has its target observed, controlled by it and with the
\* replica count it asks for
Settled(n) ==
    /\ n \in DOMAIN foos
    /\ foos[n].Spec.DeploymentName \in DOMAIN deployments
    /\ LET dep == deployments[foos[n].Spec.DeploymentName] IN
       /\ FirstControllerHasUID(dep, foos[n])
       /\ dep.Spec.Replicas = foos[n].Spec.Replicas

\* C25: while the loop stays in its select, a step that takes a name out of
\* todo is a synchronization pass that examined the name, and the name has
\* no entry in foos, or its target is observed, controlled by it and at the
\* replica count asked for (and no call was issued for it), or a call was
\* issued for it in that pass; the call of a failed pass that failed is the
\* one whose name stays in todo, so a call issued for a name that left todo
\* had succeeded.
C25_DirtyRemoval ==
    [][(pc' = "select" /\ todo \ todo' # {}) =>
         /\ PassStep
         /\ last'.err => \E c \in last'.issued : c.item \in todo'
         /\ \A n \in todo \ todo' :
               /\ n \in last'.examined
               /\ n \notin last'.warned
               /\ \/ n \notin DOMAIN foos /\ IssuedFor(n)' = {}
                  \/ Settled(n) /\ IssuedFor(n)' = {}
                  \/ /\ n \in DOMAIN foos /\ ~Settled(n)
                     /\ \E c \in last'.issued :
                           c.item = n /\ c.dep.Name = foos[n].Spec.DeploymentName]_vars

\* One pass took two names out of todo: def, which has no entry in foos, and
\* abc, for which it issued a call
C25_Witness ==
    /\ last.kind = "pass" /\ ~last.err
    /\ last.examined = {"abc", "def"} /\ todo = {}
    /\ "def" \notin DOMAIN foos /\ "abc" \in DOMAIN foos
    /\ IssuedFor("abc") # {} /\ IssuedFor("def") = {}

\* C26: a name does not stay in todo for ever unless its conflict persists or
\* its call keeps failing; in particular a dirty name whose conflicting
\* target has disappeared from deployments is reconciled.  In finite-run
\* form: while the loop is in its select with a name in todo whose target is
\* not observed (so in no conflict, and with no call that failed: a pass that
\* failed has asked for a tick), the program is not at rest.
C26_Original ==
    (pc = "select" /\ \E n \in todo : Missing(n)) => ~Quiescent

\* The name n needs no call: it has no entry in foos, or its target is as
\* its Foo asks
NothingToDo(n) == n \notin DOMAIN foos \/ Settled(n)

\* C27 as stated: every pass takes out of todo every name that needs no
\* call, and issues no call for it.
C27_Original ==
    [][PassStep =>
         \A n \in todo : NothingToDo(n) => IssuedFor(n)' = {} /\ n \notin todo']_vars

\* C27: a pass issues no call and logs no warning for a name of todo that
\* needs no call, and takes the name out of todo when it examines it; it
\* leaves the name unexamined, and in todo, only when it returned on a call
\* that failed.  No pass changes foos or deployments, and a pass over an
\* empty todo issues no call and changes nothing.
C27_SettledNames ==
    [][PassStep =>
         /\ \A n \in todo :
               NothingToDo(n) =>
                  /\ IssuedFor(n)' = {} /\ n \notin last'.warned
                  /\ n \in last'.examined <=> n \notin todo'
                  /\ n \notin last'.examined => last'.err
         /\ foos' = foos /\ deployments' = deployments
         /\ todo = {} =>
               /\ last'.issued = {} /\ ~last'.err /\ todo' = {}
               /\ UNCHANGED <<rlTimer, pc, pendingErr, errs, errorsClosed,
                              ch, stopCh, prod, hostpc>>]_vars

\* A pass examined abc alone, whose target bar is as asked: it issued no
\* call and todo is empty
C27_Witness ==
    /\ last.kind = "pass" /\ last.examined = {"abc"}
    /\ Settled("abc")
    /\ last.issued = {} /\ last.warned = {} /\ todo = {}

\* C28: every call of a pass is a create or an update, issued for a name in
\* foos and for the deployment its Spec.DeploymentName names at that pass
\* (an update exactly when that deployment is observed); the step that
\* handles a Foo event issues no call and leaves deployments alone; and while
\* the loop stays in its select a name leaves deployments only at the Delete
\* event of that deployment.  So a deployment a Foo no longer names is
\* neither deleted nor called for on behalf of that Foo.
C28_CurrentTarget ==
    /\ [](last.kind = "pass" =>
            \A c \in last.issued :
               /\ c.verb \in {"POST", "PUT"}
               /\ c.item \in DOMAIN foos
               /\ c.dep.Name = foos[c.item].Spec.DeploymentName
               /\ c.verb = "PUT" <=> c.dep.Name \in DOMAIN deployments)
    /\ [][/\ FooStep => deployments' = deployments /\ last'.issued = {}
          /\ (pc' = "select" /\ DOMAIN deployments \ DOMAIN deployments' # {}) =>
                /\ DepStep /\ last'.kind = "depDelete"
                /\ DOMAIN deployments' = DOMAIN deployments \ {last'.name}]_vars

\* A Foo Upsert has changed the target of abc from bar to baz while bar,
\* which abc controls, is observed: the pass that followed created baz and issued nothing for bar
C28_Witness ==
    /\ last.kind = "pass" /\ ~last.err /\ last.examined = {"abc"}
    /\ last.from = "bar"
    /\ "abc" \in DOMAIN foos /\ foos["abc"].Spec.DeploymentName = "baz"
    /\ "bar" \in DOMAIN deployments
    /\ ControllerUIDIs(deployments["bar"], UIDOf("abc"))
    /\ \E c \in last.issued : c.verb = "POST" /\ c.dep.Name = "baz"
    /\ \A c \in last.issued : c.dep.Name # "bar"

----------------------------------------------------------------------------
(* The order of the events of a stream *)

\* The envelopes of stream s whose events the loop has received: what the
\* server wrote, less what the producer holds and what Decode has not read
Consumed(s) ==
    SubSeq(net.log[s], 1,
           Len(net.log[s]) - Len(net.body[s]) - Len(net.held[s]))

\* The place in seq of the last envelope about the object named n, or 0
LastAbout(seq, n) ==
    LET is == {i \in 1..Len(seq) : seq[i].object.Name = n}
    IN IF is = {} THEN 0 ELSE CHOOSE i \in is : \A j \in is : j <= i

\* The map m holds, for each name, the object of the last envelope of seq
\* about it, and nothing if there is none or if it is a DELETED
HoldsLast(m, seq, names) ==
    \A n \in names \cup DOMAIN m :
        LET i == LastAbout(seq, n) IN
        IF i = 0 \/ seq[i].type = "DELETED"
        THEN n \notin DOMAIN m
        ELSE n \in DOMAIN m /\ m[n] = seq[i].object

\* C29: whatever the loop has received of the two streams and however the
\* receives were interleaved with each other and with passes, foos (resp.
\* deployments) holds for each name the snapshot of the last ADDED or
\* MODIFIED envelope about it among those consumed of its stream, and no
\* entry if the last one is a DELETED; what the server has written on a
\* connection is what was consumed, then the event the producer holds, then
\* what is still to be decoded, in the order written.
C29_StreamOrder ==
    /\ HoldsLast(foos, Consumed("foos"), Names)
    /\ HoldsLast(deployments, Consumed("deployments"), DeploymentNames)
    /\ \A s \in Streams :
          /\ Len(net.held[s]) <= 1
          /\ net.held[s] # <<>> <=> prod[s] = "send"
          /\ net.held[s] # <<>> =>
                net.held[s][1] = Delivery(net.log[s][Len(Consumed(s)) + 1])
          /\ net.body[s] = SubSeq(net.log[s], Len(net.log[s]) - Len(net.body[s]) + 1,
                                  Len(net.log[s]))

\* The loop has received MODIFIED abc (for bar) and then MODIFIED abc (for baz)
\* of the Foo stream, with an event of the deployment stream and a pass in
\* between or after: foos holds the second snapshot
C29_Witness ==
    /\ Len(Consumed("foos")) = 2 /\ Len(Consumed("deployments")) = 1
    /\ Consumed("foos")[1].type = "MODIFIED" /\ Consumed("foos")[2].type = "MODIFIED"
    /\ Consumed("foos")[1].object.Name = "abc"
    /\ Consumed("foos")[1].object.Spec.DeploymentName = "bar"
    /\ Consumed("foos")[2].object.Name = "abc"
    /\ Consumed("foos")[2].object.Spec.DeploymentName = "baz"
    /\ foos["abc"] = Consumed("foos")[2].object
    /\ "bar" \in DOMAIN deployments
    /\ last.kind = "pass"

----------------------------------------------------------------------------
(* AskTick against a pending tick *)

\* The caller is blocked in the send of AskTick and the goroutine has not
\* returned
InAskTick == rl.g = "running" /\ rl.caller = "askTick"

\* C30: while the goroutine has not returned, a caller blocked in AskTick can
\* be served whatever the timer and the pending tick are, without anybody
\* reading the tick; the step that serves it ends the call, arms the timer
\* and leaves the pending tick as it is; a pending tick can be read whenever
\* the goroutine runs; and a caller blocked in AskTick is served in the end.
C30_AskTickCompletes ==
    /\ [](/\ InAskTick => ENABLED RLAskServe
          /\ (rl.g = "running" /\ rlTick) => ENABLED RLDeliver)
    /\ [][AskServed =>
            /\ InAskTick /\ rl'.caller = "idle" /\ rl'.g = "running"
            /\ rlTimer' = "armed" /\ rlTick' = rlTick
            /\ rl'.ticks = rl.ticks]_vars
    /\ (InAskTick ~> rl.caller = "idle")

\* The third AskTick has returned: it was served after the second expiry was
\* taken, with the tick of that expiry waiting for its reader, as it still is
C30_Witness ==
    /\ rl.g = "running" /\ rl.caller = "idle"
    /\ rl.asks = 3 /\ rl.takes = 2 /\ rl.ticks = 1
    /\ rlTick /\ rlTimer = "armed"

----------------------------------------------------------------------------
(* No tick request is lost *)

\* C31: an AskTick that is served leaves the timer armed, and from every
\* state with the timer armed a tick is delivered later on, unless the
\* goroutine returns on a Stop; so every AskTick served is followed by the
\* delivery of a tick while the debouncer is not stopped.
C31_NoLostTick ==
    /\ [][AskServed => rlTimer' = "armed" /\ rl'.ticks = rl.ticks]_vars
    /\ \A k \in 0..(MaxAsks + 1) :
          (rlTimer = "armed" /\ rl.ticks = k) ~>
              (rl.ticks > k \/ rl.g = "returned")

\* One AskTick was served and one tick was delivered after it; the debouncer
\* is idle again
C31_Witness ==
    /\ rl.g = "running" /\ rl.caller = "idle"
    /\ rl.asks = 1 /\ rl.expiries = 1 /\ rl.takes = 1 /\ rl.ticks = 1
    /\ ~rlTick /\ rlTimer = "stopped"

----------------------------------------------------------------------------
(* A pass without a failed call *)

\* C32: a pass in which no call failed examines every name of todo, leaves
\* the timer as it was and keeps in todo exactly the names it logged the
\* ownership warning for, each of them in conflict; and while the loop stays
\* in its select the timer gets armed only by the step that handles a Foo
\* event, by the one that handles a deployment event, or by a failed pass,
\* and a tick becomes pending only from an expired timer: so a name kept for
\* a conflict is examined again only after one of those.
C32_NoTickAfterCleanPass ==
    [][/\ (PassStep /\ ~last'.err) =>
             /\ rlTimer' = rlTimer
             /\ last'.examined = todo
             /\ todo' = last'.warned
             /\ \A n \in todo' : Conflict(n)
       /\ (pc' = "select" /\ rlTimer # "armed" /\ rlTimer' = "armed") =>
             FooStep \/ DepStep \/ FailedPass
       /\ (~rlTick /\ rlTick') => rlTimer = "fired" /\ rlTimer' = "stopped"
       /\ PassStep => last'.kind = "pass"]_vars

\* After a pass in which no call failed abc is in todo, in conflict, and the
\* debouncer is idle
C32_Witness ==
    /\ pc = "select" /\ last.kind = "pass" /\ ~last.err
    /\ todo = {"abc"} /\ Conflict("abc") /\ last.warned = {"abc"}
    /\ RLIdle

----------------------------------------------------------------------------
(* The registration POST *)

\* C33: right after the registration POST the goroutine is on its way out
\* exactly when the POST was answered with a status outside 200..299 other
\* than 409; otherwise, and so when the POST got no answer at all, it is at
\* the registration watch with nothing reported.  An error reported with the
\* cause of the POST carries the status of an answer.  After a POST without
\* an answer, what the registration watch step reports is the cause of the
\* watch, once, and nothing if the watch yielded an event.
C33_TransportIgnored ==
    /\ last.kind = "crdPost" =>
          /\ Terminating <=> /\ last.code # -1 /\ last.code # 409
                             /\ ~(last.code >= 200 /\ last.code < 300)
          /\ ~Terminating => pc = "crdWatch" /\ Reported = {}
    /\ \A e \in Reported :
          e.cause = "http request failed" => e.code >= 100 /\ e.code # 409
    /\ (last.kind = "crdWatch" /\ last.code = -1) =>
          /\ \A e \in Reported :
                /\ e.prefix = "Could not add CRD"
                /\ e.cause = CauseOf(last.env) /\ e.code = 0
          /\ IF last.env = "ok" THEN Reported = {} /\ ~Terminating
             ELSE Cardinality(Reported) = 1 /\ Terminating

\* The POST got no answer, addCRD went on to the registration watch, which
\* could not be opened: the error the host received is "Watch failed"
C33_Witness ==
    /\ last.kind = "crdWatch" /\ last.code = -1 /\ last.env = "openFailed"
    /\ Len(errs) = 1 /\ errs[1].cause = "Watch failed" /\ errs[1].code = 0
    /\ errs[1].prefix = "Could not add CRD"

====
